---- MODULE Spec2Model ----
(***************************************************************************)
(* Model of src/playlist_downloader.py: the batch orchestrator             *)
(* (download_multiple_playlists), the playlist run (download_playlist),    *)
(* the video fetcher (download_video_with_ytdlp) with its existing-file    *)
(* check, filename sanitisation, and the scroll/discovery loop of          *)
(* extract_playlist_urls.                                                  *)
(*                                                                         *)
(* Strings are sequences of one-character strings, so that sanitisation    *)
(* and glob matching are computed character by character as Python does.   *)
(***************************************************************************)
EXTENDS Integers, Sequences, FiniteSets, TLC

----------------------------------------------------------------------------
(* Bounds of the model *)

\* longest list of videos a playlist page yields
MaxVideos == 2

\* longest list of playlist URLs handed to the batch
MaxPlaylists == 2

\* largest number of entries the page renders in the discovery loop
MaxRendered == 3

\* longest tail of a file name given to sanitize_filename on its own
MaxLen == 3

\* most calls of extract_playlist_urls made on one downloader
MaxCalls == 6

----------------------------------------------------------------------------
(* Program constants *)

\* sanitized[:255]
FilenameLimit == 255

\* max_scroll_attempts = 100
max_scroll_attempts == 100

\* max_no_change_attempts = 10
max_no_change_attempts == 10

\* 'delay_between_downloads': 3000
DefaultDownloadDelay == 3000

\* 'delay_between_playlists': 5000
DefaultPlaylistDelay == 5000

\* 'max_retries': 3
DefaultMaxRetries == 3

\* Python's None
None == "None"

----------------------------------------------------------------------------
(* Strings *)

\* the class [\\/:*?"<>|] of the first re.sub of sanitize_filename
InvalidChars == {"\\", "/", ":", "*", "?", "\"", "<", ">", "|"}

\* the characters \s matches (those the model's alphabet has)
Whitespace == {" ", "\t", "\n"}

Min(a, b) == IF a <= b THEN a ELSE b

\* re.sub(r'[\\/:*?"<>|]', '', filename)
RemoveInvalid(s) == SelectSeq(s, LAMBDA c : c \notin InvalidChars)

\* re.sub(r'\s+', ' ', s): every maximal run of whitespace becomes one space
CollapseWhitespace(s) ==
  LET marked == [k \in 1..Len(s) |->
                   IF s[k] \notin Whitespace THEN s[k]
                   ELSE IF k < Len(s) /\ s[k + 1] \in Whitespace THEN ""
                        ELSE " "]
  IN SelectSeq(marked, LAMBDA c : c # "")

RECURSIVE LStrip(_)
LStrip(s) ==
  IF s # <<>> /\ Head(s) \in Whitespace THEN LStrip(Tail(s)) ELSE s

RECURSIVE RStrip(_)
RStrip(s) ==
  IF s # <<>> /\ s[Len(s)] \in Whitespace
  THEN RStrip(SubSeq(s, 1, Len(s) - 1)) ELSE s

\* str.strip()
Strip(s) == RStrip(LStrip(s))

\* sanitized[:255]
Truncate(s) == SubSeq(s, 1, Min(Len(s), FilenameLimit))

\* YouTubePlaylistDownloader.sanitize_filename
sanitize_filename(filename) ==
  Truncate(Strip(CollapseWhitespace(RemoveInvalid(filename))))

----------------------------------------------------------------------------
(* Path.glob: one path component matched as fnmatch does *)

\* index of the "]" closing the class opened by pat[1] = "[", 0 if the class
\* is never closed (fnmatch.translate: skip a leading "!", then a leading
\* "]", then scan for "]")
ClassEnd(pat) ==
  LET n  == Len(pat)
      j1 == IF 2 <= n /\ pat[2] = "!" THEN 3 ELSE 2
      j2 == IF j1 <= n /\ pat[j1] = "]" THEN j1 + 1 ELSE j1
      ends == {k \in j2..n : pat[k] = "]"}
  IN IF ends = {} THEN 0
     ELSE CHOOSE k \in ends : \A m \in ends : k <= m

\* does character c belong to the class whose text (between the brackets) is
\* stuff; the model's alphabet has no "-", so ranges do not occur
InClass(stuff, c) ==
  IF stuff # <<>> /\ Head(stuff) = "!"
  THEN \A k \in 2..Len(stuff) : stuff[k] # c
  ELSE \E k \in 1..Len(stuff) : stuff[k] = c

RECURSIVE GlobMatch(_, _)
GlobMatch(pat, name) ==
  IF pat = <<>> THEN name = <<>>
  ELSE
    CASE Head(pat) = "*" ->
           \E k \in 0..Len(name) :
              GlobMatch(Tail(pat), SubSeq(name, k + 1, Len(name)))
      [] Head(pat) = "?" ->
           name # <<>> /\ GlobMatch(Tail(pat), Tail(name))
      [] Head(pat) = "[" ->
           LET j == ClassEnd(pat) IN
           IF j = 0
           THEN name # <<>> /\ Head(name) = "["
                /\ GlobMatch(Tail(pat), Tail(name))
           ELSE name # <<>> /\ InClass(SubSeq(pat, 2, j - 1), Head(name))
                /\ GlobMatch(SubSeq(pat, j + 1, Len(pat)), Tail(name))
      [] OTHER ->
           name # <<>> /\ Head(name) = Head(pat)
           /\ GlobMatch(Tail(pat), Tail(name))

----------------------------------------------------------------------------
(* Inputs *)

\* the playlist URLs a batch may name
PlaylistUrls == {"p1", "p2"}

\* video titles the pages show; "[a]" holds glob metacharacters, "a.b" holds
\* a dot, and "a" is a prefix of "a.b"
Titles == { <<"a">>, <<"a", ".", "b">>, <<"[", "a", "]">> }

\* the lists of entries (by title) a playlist page can render
Pages == UNION {[1..n -> Titles] : n \in 0..MaxVideos}

\* the lists of URLs a batch can be given; the names of the URLs are
\* interchangeable, so a list starts with "p1"
UrlLists ==
  {us \in UNION {[1..n -> PlaylistUrls] : n \in 0..MaxPlaylists} :
     us = <<>> \/ us[1] = "p1"}

\* the title the page header of a playlist shows
PlaylistTitle(url) == IF url = "p1" THEN <<"L", "1">> ELSE <<"L", "2">>

\* the canonical watch URL of the video a title belongs to
WatchUrl(title) == <<"v", "=">> \o title

\* extension of the media file the download capability writes
MediaExt == <<"m", "p", "4">>

\* self.download_folder
download_folder == <<"d">>

\* Path / name
Join(dir, name) == dir \o <<"/">> \o name

MetadataName == <<"playlist_info", ".", "json">>

SortOrders == {"playlist", "upload", "reverse"}

\* the options a caller passes; the model varies the policy flags, the sort
\* order and the folder flag and keeps the defaults of the other options
Configs ==
  [ continue_on_error          : BOOLEAN,
    continue_on_playlist_error : BOOLEAN,
    sort_order                 : SortOrders,
    create_playlist_folder     : BOOLEAN,
    delay_between_downloads    : {DefaultDownloadDelay},
    delay_between_playlists    : {DefaultPlaylistDelay},
    headless                   : {TRUE},
    max_retries                : {DefaultMaxRetries} ]

\* the defaults of download_playlist and download_multiple_playlists
DefaultConfig ==
  [ continue_on_error          |-> TRUE,
    continue_on_playlist_error |-> TRUE,
    sort_order                 |-> "playlist",
    create_playlist_folder     |-> TRUE,
    delay_between_downloads    |-> DefaultDownloadDelay,
    delay_between_playlists    |-> DefaultPlaylistDelay,
    headless                   |-> TRUE,
    max_retries                |-> DefaultMaxRetries ]

\* the options of the batches of the model: the default sort order
BatchConfigs == {cfg \in Configs : cfg.sort_order = "playlist"}

\* the options that pace a batch: the pause between playlists and the
\* stop-on-playlist-error policy, the others at their defaults
BatchPacingConfigs ==
  {[DefaultConfig EXCEPT !.delay_between_playlists = d,
                         !.continue_on_playlist_error = c] :
     d \in {0, DefaultPlaylistDelay}, c \in BOOLEAN}

\* the options that could pace a run: the pause between downloads, the
\* stop-on-error policy and the number of retries, the others at their
\* defaults
PacingConfigs ==
  {[DefaultConfig EXCEPT !.delay_between_downloads = d,
                         !.continue_on_error = c,
                         !.max_retries = r] :
     d \in {0, DefaultDownloadDelay}, c \in BOOLEAN,
     r \in {0, DefaultMaxRetries}}

----------------------------------------------------------------------------
(* State *)

VARIABLES
  playlist_urls,          \* argument of download_multiple_playlists
  config,                 \* the merged options
  pc,                     \* position of the single thread of control
  playlist_i,             \* 1-based index of the batch loop
  results,                \* results of download_multiple_playlists
  total_success, total_skipped, total_failed, total_playlists_failed,
  batch_summary,          \* value returned by download_multiple_playlists
  chrome_options,         \* self.chrome_options: the arguments added so far
  driver,                 \* the rendering session of extract_playlist_urls
  sessions_open,          \* rendering sessions launched and not yet quit
  sessions,               \* history: the sessions launched, [headless, options]
  discovered,             \* result['videos'] of the extraction, before sorting
  videos,                 \* the sorted list download_playlist iterates over
  video_i,                \* 1-based index of the download loop
  success_count, fail_count, skipped_count,
  playlist_folder,        \* folder the run downloads into
  aborted,                \* the download loop was left by its break
  files,                  \* the files on disk: [dir, name]
  dirs,                   \* the directories on disk
  info_json,              \* contents of the playlist_info.json files
  fetches,                \* history: the calls of download_video_with_ytdlp
  runs,                   \* history: the calls of download_playlist
  \* discovery loop of extract_playlist_urls
  dpc, max_videos, rendered, current_count, scroll_attempts, no_change_count,
  video_data,
  \* calls of sanitize_filename
  spc,                    \* position: "idle", "input", "once", "twice"
  filename,               \* the argument of the first call
  sanitized,              \* what the first call returned
  resanitized             \* what a call on that result returned

batchVars == <<playlist_urls, config, pc, playlist_i, results, total_success,
               total_skipped, total_failed, total_playlists_failed,
               batch_summary>>
sessionVars == <<chrome_options, driver, sessions_open, sessions>>
runVars == <<discovered, videos, video_i, success_count, fail_count,
             skipped_count, playlist_folder, aborted>>
diskVars == <<files, dirs, info_json>>
historyVars == <<fetches, runs>>
discoveryVars == <<dpc, max_videos, rendered, current_count, scroll_attempts,
                   no_change_count, video_data>>

sanitizeVars == <<spc, filename, sanitized, resanitized>>

vars == <<batchVars, sessionVars, runVars, diskVars, historyVars,
          discoveryVars,
                 sanitizeVars>>

----------------------------------------------------------------------------
(* download_playlist: pure parts *)

\* the VideoInfo records extract_playlist_urls builds from the rendered
\* entries, playlist_index = index + 1
VideoInfos(page) ==
  [k \in 1..Len(page) |->
     [title |-> page[k], url |-> WatchUrl(page[k]), playlist_index |-> k,
      download_index |-> 0]]

\* list(reversed(videos))
Reversed(s) == [k \in 1..Len(s) |-> s[Len(s) + 1 - k]]

\* a sort that leaves "upload" in playlist order
SortVideos_UploadKept(vs, sort_order) ==
  IF sort_order = "reverse" THEN Reversed(vs) ELSE vs

\* "Sort videos based on specified order"
SortVideos(vs, sort_order) ==
  IF sort_order = "upload" THEN Reversed(vs)
  ELSE IF sort_order = "reverse" THEN Reversed(vs)
  ELSE vs

\* "Update download indices"
UpdateDownloadIndices(vs) ==
  [k \in 1..Len(vs) |-> [vs[k] EXCEPT !.download_index = k]]

\* PlaylistInfo as _extract_playlist_metadata returns it
PlaylistInfoOf(url) ==
  [title |-> PlaylistTitle(url), url |-> url, total_videos |-> 0]

\* playlist_folder of a run
PlaylistFolderOf(url, cfg) ==
  IF cfg.create_playlist_folder
  THEN Join(download_folder, sanitize_filename(PlaylistTitle(url)))
  ELSE download_folder

\* a metadata dictionary whose count is the one of the PlaylistInfo
MetadataOf_InfoCount(url, vs, cfg) ==
  [dir |-> PlaylistFolderOf(url, cfg), url |-> url,
   total_videos |-> PlaylistInfoOf(url).total_videos,
   videos |-> [k \in 1..Len(vs) |-> [title |-> vs[k].title,
                                      playlist_index |-> vs[k].playlist_index]],
   sort_order |-> cfg.sort_order]

\* the metadata dictionary dumped to playlist_info.json
MetadataOf(url, vs, cfg) ==
  [dir |-> PlaylistFolderOf(url, cfg), url |-> url,
   total_videos |-> Len(vs),
   videos |-> [k \in 1..Len(vs) |-> [title |-> vs[k].title,
                                      playlist_index |-> vs[k].playlist_index]],
   sort_order |-> cfg.sort_order]

----------------------------------------------------------------------------
(* download_video_with_ytdlp *)

\* list(output_dir.glob(f"{sanitized_title}.*"))
existing_files(disk, output_dir, sanitized_title) ==
  {f \in disk : f.dir = output_dir
                /\ GlobMatch(sanitized_title \o <<".", "*">>, f.name)}

\* the file the download capability writes for outtmpl
\* output_dir / f"{sanitized_title}.%(ext)s"
OutputFile(output_dir, sanitized_title) ==
  [dir |-> output_dir, name |-> sanitized_title \o <<".">> \o MediaExt]

\* what the environment does to one call: the existing-file check raises
\* ("OSError"), or it works and the download capability, if it is called,
\* returns ("ok") or raises ("DownloadError")
Answers == {"ok", "DownloadError", "OSError"}

\* a handler that catches the errors of the download capability only
HandleException_DownloadErrorOnly(custom_title, error_msg, invoked) ==
  [success |-> FALSE, skipped |-> FALSE, title |-> custom_title,
   error |-> error_msg, invoked |-> invoked,
   raised |-> error_msg # "DownloadError"]

\* "except Exception as e": the DownloadResult the handler returns; raised
\* tells whether the exception leaves download_video_with_ytdlp
HandleException(custom_title, error_msg, invoked) ==
  [success |-> FALSE, skipped |-> FALSE, title |-> custom_title,
   error |-> error_msg, invoked |-> invoked, raised |-> FALSE]

\* the DownloadResult of one call; answer is what the environment does,
\* invoked tells whether the download capability was called at all
download_video_with_ytdlp(disk, video, output_dir, answer) ==
  LET sanitized_title == sanitize_filename(video.title) IN
  IF answer = "OSError"
  THEN HandleException(video.title, "OSError", FALSE)
  ELSE IF existing_files(disk, output_dir, sanitized_title) # {}
       THEN [success |-> TRUE, skipped |-> TRUE, title |-> sanitized_title,
             error |-> None, invoked |-> FALSE, raised |-> FALSE]
       ELSE IF answer = "ok"
            THEN [success |-> TRUE, skipped |-> FALSE,
                  title |-> sanitized_title, error |-> None,
                  invoked |-> TRUE, raised |-> FALSE]
            ELSE HandleException(video.title, "DownloadError", TRUE)

\* a file name without its extension (Path.stem): the part before the last
\* dot, a leading dot not counting
Stem(name) ==
  LET dots == {k \in 2..Len(name) : name[k] = "."} IN
  IF dots = {} THEN name
  ELSE SubSeq(name, 1, (CHOOSE k \in dots : \A m \in dots : m <= k) - 1)

\* output_dir holds a file whose name without extension is sanitized_title
HasFileNamed(disk, output_dir, sanitized_title) ==
  \E f \in disk : f.dir = output_dir /\ Stem(f.name) = sanitized_title

\* what went wrong inside one call: the check raised, the capability was
\* called and raised, or nothing (None)
FailureOf(disk, video, output_dir, answer) ==
  IF answer = "OSError" THEN "OSError"
  ELSE IF answer = "DownloadError"
          /\ existing_files(disk, output_dir,
                            sanitize_filename(video.title)) = {}
       THEN "DownloadError"
       ELSE None

\* the disk after one call
DiskAfterFetch(disk, video, output_dir, result) ==
  IF result.invoked /\ result.success
  THEN disk \cup {OutputFile(output_dir, sanitize_filename(video.title))}
  ELSE disk

\* the variant of DownloadOutcome a DownloadResult stands for
OutcomeOf(result) ==
  IF result.success THEN (IF result.skipped THEN "SucceededSkipped"
                          ELSE "Succeeded")
  ELSE "Failed"

----------------------------------------------------------------------------
(* download_playlist: the download loop *)

\* success_count after a result
SuccessAfter(n, result) ==
  IF result.success /\ ~result.skipped THEN n + 1 ELSE n

\* skipped_count after a result
SkippedAfter(n, result) ==
  IF result.success /\ result.skipped THEN n + 1 ELSE n

\* a loop that forgets to count failures
FailAfter_NotCounted(n, result) == n

\* fail_count after a result
FailAfter(n, result) ==
  IF ~result.success THEN n + 1 ELSE n

\* a loop without the break
BreaksLoop_Never(result, cfg) == FALSE

\* a loop that breaks on every failure, whatever the option
BreaksLoop_Always(result, cfg) == ~result.success

\* "if not config['continue_on_error']: break", in the failure branch
BreaksLoop(result, cfg) == ~result.success /\ ~cfg.continue_on_error

\* a loop without its pause
PausesAfterVideo_Never(k, n, cfg) == FALSE

\* "if i < len(videos) - 1 and config['delay_between_downloads'] > 0",
\* k the 1-based index of the video just processed
PausesAfterVideo(k, n, cfg) == k < n /\ cfg.delay_between_downloads > 0

\* the dictionary download_playlist returns
SummaryOf(url, cfg, vs, sc, kc, fc, folder) ==
  [kind |-> "summary", playlist_info |-> PlaylistInfoOf(url),
   success_count |-> sc, skipped_count |-> kc, fail_count |-> fc,
   total_videos |-> Len(vs), playlist_folder |-> folder,
   sort_order |-> cfg.sort_order]

\* download_playlist returning None
NoneResult(url, cfg) ==
  [kind |-> "None", playlist_info |-> PlaylistInfoOf(url),
   success_count |-> 0, skipped_count |-> 0, fail_count |-> 0,
   total_videos |-> 0, playlist_folder |-> download_folder,
   sort_order |-> cfg.sort_order]

----------------------------------------------------------------------------
(* download_multiple_playlists: pure parts *)

\* the entry appended for a truthy result
SuccessEntry(url, res) ==
  [url |-> url, success |-> TRUE, error |-> None,
   playlist_info |-> res.playlist_info,
   success_count |-> res.success_count, skipped_count |-> res.skipped_count,
   fail_count |-> res.fail_count, total_videos |-> res.total_videos,
   playlist_folder |-> res.playlist_folder]

\* error_result of the except branch (it has no counts: they read 0 here)
ErrorEntry(url, res) ==
  [url |-> url, success |-> FALSE, error |-> "Exception",
   playlist_info |-> res.playlist_info,
   success_count |-> 0, skipped_count |-> 0, fail_count |-> 0,
   total_videos |-> 0, playlist_folder |-> download_folder]

\* results after the call of download_playlist ended with res; kind "raised"
\* is an exception leaving download_playlist
ResultsAfter(rs, url, res) ==
  IF res.kind = "summary" THEN Append(rs, SuccessEntry(url, res))
  ELSE IF res.kind = "raised" THEN Append(rs, ErrorEntry(url, res))
  ELSE rs

\* "if not config['continue_on_playlist_error']: break", in the except branch
BreaksBatch(res, cfg) ==
  res.kind = "raised" /\ ~cfg.continue_on_playlist_error

\* a batch without its pause
PausesAfterPlaylist_Never(k, n, cfg) == FALSE

\* "if i < len(playlist_urls) - 1 and config['delay_between_playlists'] > 0",
\* k the 1-based index of the playlist just processed
PausesAfterPlaylist(k, n, cfg) == k < n /\ cfg.delay_between_playlists > 0

\* a summary that reports the failed total as the skipped one and back
BatchSummaryOf_SkippedFailedSwapped(urls, rs, s, k, f, pf) ==
  [returned |-> TRUE,
   total_playlists |-> Len(urls),
   successful_playlists |-> Cardinality({j \in 1..Len(rs) : rs[j].success}),
   failed_playlists |-> pf,
   total_videos_downloaded |-> s, total_videos_skipped |-> f,
   total_videos_failed |-> k,
   results |-> rs]

\* the dictionary download_multiple_playlists returns
BatchSummaryOf(urls, rs, s, k, f, pf) ==
  [returned |-> TRUE,
   total_playlists |-> Len(urls),
   successful_playlists |-> Cardinality({j \in 1..Len(rs) : rs[j].success}),
   failed_playlists |-> pf,
   total_videos_downloaded |-> s, total_videos_skipped |-> k,
   total_videos_failed |-> f,
   results |-> rs]

NoBatchSummary ==
  [returned |-> FALSE, total_playlists |-> 0, successful_playlists |-> 0,
   failed_playlists |-> 0, total_videos_downloaded |-> 0,
   total_videos_skipped |-> 0, total_videos_failed |-> 0, results |-> <<>>]

----------------------------------------------------------------------------
(* Initial states *)

\* the arguments __init__ adds to self.chrome_options
BaseChromeOptions ==
  <<"--no-sandbox", "--disable-setuid-sandbox", "--disable-dev-shm-usage",
    "--disable-blink-features=AutomationControlled",
    "--disable-features=VizDisplayCompositor", "--user-agent">>

\* max_videos = None
NoLimit == 0 - 1

\* the locals of download_playlist outside a run
RunIdle ==
  /\ discovered = <<>>
  /\ videos = <<>>
  /\ video_i = 1
  /\ success_count = 0
  /\ fail_count = 0
  /\ skipped_count = 0
  /\ playlist_folder = download_folder
  /\ aborted = FALSE

\* the locals of download_playlist are dropped when it returns
RunReset ==
  /\ discovered' = <<>>
  /\ videos' = <<>>
  /\ video_i' = 1
  /\ success_count' = 0
  /\ fail_count' = 0
  /\ skipped_count' = 0
  /\ playlist_folder' = download_folder
  /\ aborted' = FALSE

\* the locals of extract_playlist_urls outside the discovery loop
DiscoveryIdle ==
  /\ dpc = "idle"
  /\ max_videos = NoLimit
  /\ rendered = 0
  /\ current_count = 0
  /\ scroll_attempts = 0
  /\ no_change_count = 0
  /\ video_data = <<>>

\* no call of sanitize_filename is being followed
SanitizeIdle ==
  /\ spc = "idle"
  /\ filename = <<>>
  /\ sanitized = <<>>
  /\ resanitized = <<>>

\* the media files earlier runs may have left in a folder
InitialDisks(folder) ==
  SUBSET {[dir |-> folder, name |-> sanitize_filename(t) \o <<".">> \o MediaExt]
            : t \in Titles}

\* a downloader just constructed and a batch just called with urls and cfg,
\* disk the files found on disk
BatchStart(urls, cfg, disk) ==
  /\ playlist_urls = urls
  /\ config = cfg
  /\ pc = IF urls = <<>> THEN "batch_end" ELSE "batch_loop"
  /\ playlist_i = 1
  /\ results = <<>>
  /\ total_success = 0
  /\ total_skipped = 0
  /\ total_failed = 0
  /\ total_playlists_failed = 0
  /\ batch_summary = NoBatchSummary
  /\ chrome_options = BaseChromeOptions
  /\ driver = None
  /\ sessions_open = 0
  /\ sessions = <<>>
  /\ RunIdle
  /\ files = disk
  /\ dirs = {download_folder} \cup {f.dir : f \in disk}
  /\ info_json = {}
  /\ fetches = <<>>
  /\ runs = <<>>

\* a batch over any list of URLs, started on an empty download folder
Init ==
  /\ \E urls \in UrlLists : \E cfg \in BatchConfigs :
       BatchStart(urls, cfg, {})
  /\ DiscoveryIdle
  /\ SanitizeIdle

\* a single playlist run with any options, started on a folder that may hold
\* media files of earlier runs
InitRun ==
  /\ \E cfg \in Configs :
       \E disk \in InitialDisks(PlaylistFolderOf("p1", cfg)) :
         BatchStart(<<"p1">>, cfg, disk)
  /\ DiscoveryIdle
  /\ SanitizeIdle

----------------------------------------------------------------------------
(* download_multiple_playlists and download_playlist: actions *)

\* the URL of the playlist being processed
CurrentUrl == playlist_urls[playlist_i]

\* history record of one call of download_playlist: what it returned (res),
\* whether an exception was raised inside it (err), and the run's lists
RunRecord(url, res, err, disc, vs, ab) ==
  [url |-> url, kind |-> res.kind, error |-> err, discovered |-> disc,
   videos |-> vs, success_count |-> res.success_count,
   skipped_count |-> res.skipped_count, fail_count |-> res.fail_count,
   total_videos |-> res.total_videos, playlist_folder |-> res.playlist_folder,
   playlist_info |-> res.playlist_info, aborted |-> ab]

\* download_playlist ends with res and the batch loop handles it: the
\* result is recorded, the totals are updated, and the loop breaks, pauses
\* or goes on
ReturnToBatch(res, rec) ==
  /\ results' = ResultsAfter(results, CurrentUrl, res)
  /\ total_success' =
       IF res.kind = "summary" THEN total_success + res.success_count
       ELSE total_success
  /\ total_skipped' =
       IF res.kind = "summary" THEN total_skipped + res.skipped_count
       ELSE total_skipped
  /\ total_failed' =
       IF res.kind = "summary" THEN total_failed + res.fail_count
       ELSE total_failed
  /\ total_playlists_failed' =
       IF res.kind = "raised" THEN total_playlists_failed + 1
       ELSE total_playlists_failed
  /\ IF BreaksBatch(res, config)
     THEN pc' = "batch_end" /\ playlist_i' = playlist_i
     ELSE IF PausesAfterPlaylist(playlist_i, Len(playlist_urls), config)
          THEN pc' = "sleep_playlist" /\ playlist_i' = playlist_i
          ELSE IF playlist_i < Len(playlist_urls)
               THEN pc' = "batch_loop" /\ playlist_i' = playlist_i + 1
               ELSE pc' = "batch_end" /\ playlist_i' = playlist_i
  /\ runs' = Append(runs, rec)
  /\ RunReset
  /\ UNCHANGED <<playlist_urls, config, batch_summary>>

\* a download_playlist without its handler, under a batch that lets the
\* exception go: the batch call ends without a summary
FailedRun_Propagates ==
  /\ pc' = "crashed"
  /\ runs' = Append(runs, RunRecord(CurrentUrl,
                                    NoneResult(CurrentUrl, config), TRUE,
                                    <<>>, <<>>, FALSE))
  /\ RunReset
  /\ UNCHANGED <<playlist_urls, config, playlist_i, results, total_success,
                 total_skipped, total_failed, total_playlists_failed,
                 batch_summary>>

\* the exception handler of download_playlist: it returns None
FailedRun ==
  ReturnToBatch(NoneResult(CurrentUrl, config),
                RunRecord(CurrentUrl, NoneResult(CurrentUrl, config), TRUE,
                          <<>>, <<>>, FALSE))

\* self.chrome_options after "if headless: add_argument('--headless=new')"
OptionsAfter(opts, cfg) ==
  IF cfg.headless THEN Append(opts, "--headless=new") ELSE opts

\* a quit placed at the end of the try body: no exception reaches it
QuitsInFinally_OnlyOnReturn(d, raised) == d # None /\ ~raised

\* an extraction that never quits its session
QuitsInFinally_Never(d, raised) == FALSE

\* "finally: if driver: driver.quit()", d the local driver, raised telling
\* whether the try body is left by an exception
QuitsInFinally(d, raised) == d # None

\* the open sessions after the finally clause
SessionsAfterFinally(n, d, raised) ==
  IF QuitsInFinally(d, raised) THEN n - 1 ELSE n

\* the batch loop calls download_playlist, which calls
\* extract_playlist_urls, which opens the rendering session
StartPlaylist ==
  /\ pc = "batch_loop"
  /\ chrome_options' = OptionsAfter(chrome_options, config)
  /\ driver' = "open"
  /\ sessions_open' = sessions_open + 1
  /\ sessions' = Append(sessions,
                        [headless |-> config.headless,
                         options |-> OptionsAfter(chrome_options, config)])
  /\ pc' = "extract"
  /\ UNCHANGED <<playlist_urls, config, playlist_i, results, total_success,
                 total_skipped, total_failed, total_playlists_failed,
                 batch_summary>>
  /\ UNCHANGED <<runVars, diskVars, historyVars, discoveryVars,
                 sanitizeVars>>

\* an exception inside extract_playlist_urls (the wait for the entry marker
\* times out, the driver fails): the session is quit, the exception is
\* re-raised and download_playlist catches it
ExtractionFails ==
  /\ pc = "extract"
  /\ driver' = None
  /\ sessions_open' = SessionsAfterFinally(sessions_open, driver, TRUE)
  /\ FailedRun
  /\ UNCHANGED <<chrome_options, sessions, diskVars, fetches, discoveryVars,
                 sanitizeVars>>

\* extract_playlist_urls returns the entries of the page (any list of Pages:
\* how the scroll loop arrives at the rendered entries is the subject of
\* SpecDiscovery below); download_playlist
\* returns None for an empty list, and otherwise sorts the list, makes the
\* folder, writes playlist_info.json and enters the download loop
ExtractionReturns ==
  /\ pc = "extract"
  /\ driver' = None
  /\ sessions_open' = SessionsAfterFinally(sessions_open, driver, FALSE)
  /\ \E page \in Pages :
       IF VideoInfos(page) = <<>>
       THEN /\ ReturnToBatch(NoneResult(CurrentUrl, config),
                             RunRecord(CurrentUrl,
                                       NoneResult(CurrentUrl, config), FALSE,
                                       <<>>, <<>>, FALSE))
            /\ UNCHANGED diskVars
       ELSE LET vs == UpdateDownloadIndices(
                        SortVideos(VideoInfos(page), config.sort_order))
                folder == PlaylistFolderOf(CurrentUrl, config)
            IN /\ discovered' = VideoInfos(page)
               /\ videos' = vs
               /\ playlist_folder' = folder
               /\ dirs' = dirs \cup {folder}
               /\ IF config.create_playlist_folder
                  THEN /\ files' = files \cup
                                   {[dir |-> folder, name |-> MetadataName]}
                       /\ info_json' =
                            {m \in info_json : m.dir # folder}
                            \cup {MetadataOf(CurrentUrl, vs, config)}
                  ELSE UNCHANGED <<files, info_json>>
               /\ success_count' = 0
               /\ fail_count' = 0
               /\ skipped_count' = 0
               /\ video_i' = 1
               /\ aborted' = FALSE
               /\ pc' = "download_loop"
               /\ UNCHANGED <<playlist_urls, config, playlist_i, results,
                              total_success, total_skipped, total_failed,
                              total_playlists_failed, batch_summary, runs>>
  /\ UNCHANGED <<chrome_options, sessions, fetches, discoveryVars,
                 sanitizeVars>>

\* one iteration of the download loop: the video is fetched and counted;
\* then the loop breaks, pauses, goes on, or ends, and when it breaks or
\* ends download_playlist returns its summary to the batch loop; an
\* exception leaving the fetcher would end in the handler of
\* download_playlist
FetchVideo ==
  /\ pc = "download_loop"
  /\ \E answer \in Answers :
       LET video == videos[video_i]
           result == download_video_with_ytdlp(files, video, playlist_folder,
                                               answer)
           sc == SuccessAfter(success_count, result)
           kc == SkippedAfter(skipped_count, result)
           fc == FailAfter(fail_count, result)
           summary == SummaryOf(CurrentUrl, config, videos, sc, kc, fc,
                                playlist_folder)
       IN /\ files' = DiskAfterFetch(files, video, playlist_folder, result)
          /\ fetches' = Append(fetches,
                               [run |-> Len(runs) + 1, video |-> video,
                                output_dir |-> playlist_folder,
                                outcome |-> OutcomeOf(result),
                                invoked |-> result.invoked,
                                result |-> result,
                                had_file |->
                                  HasFileNamed(files, playlist_folder,
                                               sanitize_filename(video.title)),
                                failure |-> FailureOf(files, video,
                                                      playlist_folder,
                                                      answer)])
          /\ IF result.raised
             THEN FailedRun
             ELSE IF BreaksLoop(result, config)
             THEN ReturnToBatch(summary,
                                RunRecord(CurrentUrl, summary, FALSE,
                                          discovered, videos, TRUE))
             ELSE IF video_i < Len(videos)
                  THEN /\ success_count' = sc
                       /\ skipped_count' = kc
                       /\ fail_count' = fc
                       /\ IF PausesAfterVideo(video_i, Len(videos), config)
                          THEN pc' = "sleep_download" /\ video_i' = video_i
                          ELSE pc' = "download_loop"
                               /\ video_i' = video_i + 1
                       /\ UNCHANGED <<playlist_urls, config, playlist_i,
                                      results, total_success, total_skipped,
                                      total_failed, total_playlists_failed,
                                      batch_summary, runs, discovered, videos,
                                      playlist_folder, aborted>>
                  ELSE ReturnToBatch(summary,
                                     RunRecord(CurrentUrl, summary, FALSE,
                                               discovered, videos, FALSE))
  /\ UNCHANGED <<sessionVars, dirs, info_json, discoveryVars,
                 sanitizeVars>>

\* a loop that fetches a failed video again after the pause
WakeDownload_Retries ==
  /\ pc = "sleep_download"
  /\ pc' = "download_loop"
  /\ video_i' = IF fetches[Len(fetches)].outcome = "Failed"
                THEN video_i ELSE video_i + 1
  /\ UNCHANGED <<playlist_urls, config, playlist_i, results, total_success,
                 total_skipped, total_failed, total_playlists_failed,
                 batch_summary>>
  /\ UNCHANGED <<discovered, videos, success_count, fail_count, skipped_count,
                 playlist_folder, aborted>>
  /\ UNCHANGED <<sessionVars, diskVars, historyVars, discoveryVars,
                 sanitizeVars>>

\* "await asyncio.sleep(delay_seconds)" of the download loop ends
WakeDownload ==
  /\ pc = "sleep_download"
  /\ pc' = "download_loop"
  /\ video_i' = video_i + 1
  /\ UNCHANGED <<playlist_urls, config, playlist_i, results, total_success,
                 total_skipped, total_failed, total_playlists_failed,
                 batch_summary>>
  /\ UNCHANGED <<discovered, videos, success_count, fail_count, skipped_count,
                 playlist_folder, aborted>>
  /\ UNCHANGED <<sessionVars, diskVars, historyVars, discoveryVars,
                 sanitizeVars>>

\* "await asyncio.sleep(delay_seconds)" of the batch loop ends
WakePlaylist ==
  /\ pc = "sleep_playlist"
  /\ pc' = "batch_loop"
  /\ playlist_i' = playlist_i + 1
  /\ UNCHANGED <<playlist_urls, config, results, total_success,
                 total_skipped, total_failed, total_playlists_failed,
                 batch_summary>>
  /\ UNCHANGED <<sessionVars, runVars, diskVars, historyVars, discoveryVars,
                 sanitizeVars>>

\* the batch loop is over: the final summary is returned
BatchFinish ==
  /\ pc = "batch_end"
  /\ batch_summary' = BatchSummaryOf(playlist_urls, results, total_success,
                                     total_skipped, total_failed,
                                     total_playlists_failed)
  /\ pc' = "done"
  /\ UNCHANGED <<playlist_urls, config, playlist_i, results, total_success,
                 total_skipped, total_failed, total_playlists_failed>>
  /\ UNCHANGED <<sessionVars, runVars, diskVars, historyVars, discoveryVars,
                 sanitizeVars>>

Next ==
  \/ StartPlaylist
  \/ ExtractionFails
  \/ ExtractionReturns
  \/ FetchVideo
  \/ WakeDownload
  \/ WakePlaylist
  \/ BatchFinish

Spec == Init /\ [][Next]_vars

\* a batch over any list of URLs with any batch pacing options
InitBatchPacing ==
  /\ \E urls \in UrlLists : \E cfg \in BatchPacingConfigs :
       BatchStart(urls, cfg, {})
  /\ DiscoveryIdle
  /\ SanitizeIdle

SpecBatchPacing == InitBatchPacing /\ [][Next]_vars

\* a batch of one playlist never pauses between playlists
NextRun ==
  \/ StartPlaylist
  \/ ExtractionFails
  \/ ExtractionReturns
  \/ FetchVideo
  \/ WakeDownload
  \/ BatchFinish

SpecRun == InitRun /\ [][NextRun]_vars

\* extract_playlist_urls returns a list of videos, and then the making of
\* the playlist folder (mkdir), the opening of playlist_info.json or the
\* dump into it raises: the handler of download_playlist returns None
FolderSetupFails ==
  /\ pc = "extract"
  /\ config.create_playlist_folder
  /\ driver' = None
  /\ sessions_open' = SessionsAfterFinally(sessions_open, driver, FALSE)
  /\ \E page \in Pages : \E stage \in {"mkdir", "open", "dump"} :
       LET vs == UpdateDownloadIndices(
                   SortVideos(VideoInfos(page), config.sort_order))
           folder == PlaylistFolderOf(CurrentUrl, config)
       IN /\ VideoInfos(page) # <<>>
          /\ dirs' = IF stage = "mkdir" THEN dirs ELSE dirs \cup {folder}
          /\ files' = IF stage = "dump"
                      THEN files \cup {[dir |-> folder, name |-> MetadataName]}
                      ELSE files
          /\ info_json' = IF stage = "dump"
                          THEN {m \in info_json : m.dir # folder}
                          ELSE info_json
          /\ ReturnToBatch(NoneResult(CurrentUrl, config),
                           RunRecord(CurrentUrl,
                                     NoneResult(CurrentUrl, config), TRUE,
                                     VideoInfos(page), vs, FALSE))
  /\ UNCHANGED <<chrome_options, sessions, fetches, discoveryVars,
                 sanitizeVars>>

NextFolder ==
  \/ NextRun
  \/ FolderSetupFails

\* a single playlist run on a disk that may refuse the folder or the
\* metadata file
SpecFolder == InitRun /\ [][NextFolder]_vars

\* a single playlist run started on an empty folder with any pacing options
InitPacing ==
  /\ \E cfg \in PacingConfigs : BatchStart(<<"p1">>, cfg, {})
  /\ DiscoveryIdle
  /\ SanitizeIdle

SpecPacing == InitPacing /\ [][NextRun]_vars

\* the operator interrupts the program during the settle pause of the
\* scroll loop (time.sleep(3)): KeyboardInterrupt is no Exception, so only
\* the finally clause of extract_playlist_urls runs and the batch call ends
\* without returning
InterruptExtraction ==
  /\ pc = "extract"
  /\ pc' = "interrupted"
  /\ driver' = None
  /\ sessions_open' = SessionsAfterFinally(sessions_open, driver, TRUE)
  /\ UNCHANGED <<playlist_urls, config, playlist_i, results, total_success,
                 total_skipped, total_failed, total_playlists_failed,
                 batch_summary>>
  /\ UNCHANGED <<chrome_options, sessions, runVars, diskVars, historyVars,
                 discoveryVars, sanitizeVars>>

NextInterrupt ==
  \/ NextRun
  \/ InterruptExtraction

\* a single playlist run with an operator who may interrupt the extraction
SpecInterrupt == InitRun /\ [][NextInterrupt]_vars

----------------------------------------------------------------------------
(* extract_playlist_urls: the discovery loop *)

\* the values max_videos takes: None, or a number up to what the page renders
MaxVideosChoices == {NoLimit} \cup (0..MaxRendered)

\* a loop whose attempt cap is tested with <= instead of <
LoopCondition_CapInclusive(attempts, streak) ==
  attempts <= max_scroll_attempts /\ streak < max_no_change_attempts

\* the condition of the while loop
LoopCondition(attempts, streak) ==
  attempts < max_scroll_attempts /\ streak < max_no_change_attempts

\* a streak that only an increase resets
NoChangeAfter_IncreaseOnly(streak, previous, current) ==
  IF current > previous THEN 0 ELSE streak + 1

\* no_change_count after a scroll that took the count from previous to
\* current
NoChangeAfter(streak, previous, current) ==
  IF current = previous THEN streak + 1 ELSE 0

\* "if max_videos and current_count >= max_videos": None and 0 are falsy
LimitReached(limit, current) ==
  limit # NoLimit /\ limit # 0 /\ current >= limit

\* "if scroll_attempts % 5 == 0"
AlternativeScroll(attempts) == attempts % 5 = 0

\* the elements of a set of numbers in increasing order
SortedSeq(S) ==
  CHOOSE q \in [1..Cardinality(S) -> S] :
    \A a, b \in 1..Cardinality(S) : a < b => q[a] < q[b]

\* extract_playlist_urls has waited for the first entry to be rendered and
\* enters the loop
InitDiscovery ==
  /\ BatchStart(<<>>, DefaultConfig, {})
  /\ dpc = "loop"
  /\ max_videos \in MaxVideosChoices
  /\ rendered \in 1..MaxRendered
  /\ current_count = 0
  /\ scroll_attempts = 0
  /\ no_change_count = 0
  /\ video_data = <<>>
  /\ SanitizeIdle

\* one iteration of the while loop: scroll, count the rendered entries
\* (r of them), update the streak, break on the limit, and scroll again on
\* every fifth attempt (r2 entries are rendered after that)
Scroll ==
  /\ dpc = "loop"
  /\ \E r \in 0..MaxRendered : \E r2 \in 0..MaxRendered :
       LET attempts == scroll_attempts + 1
           streak == NoChangeAfter(no_change_count, current_count, r)
           reached == LimitReached(max_videos, r)
           again == ~reached /\ AlternativeScroll(attempts)
       IN /\ again \/ r2 = r
          /\ current_count' = r
          /\ scroll_attempts' = attempts
          /\ no_change_count' = streak
          /\ rendered' = r2
          /\ dpc' = IF reached \/ ~LoopCondition(attempts, streak)
                    THEN "enumerate" ELSE "loop"
  /\ UNCHANGED <<max_videos, video_data>>
  /\ UNCHANGED <<batchVars, sessionVars, runVars, diskVars, historyVars,
                 sanitizeVars>>

\* after the loop every rendered entry with a watch URL becomes a VideoInfo
\* (video_data holds their playlist_index values); the others are skipped
Enumerate ==
  /\ dpc = "enumerate"
  /\ \E valid \in SUBSET (1..rendered) :
       video_data' = SortedSeq(valid)
  /\ dpc' = "returned"
  /\ UNCHANGED <<max_videos, rendered, current_count, scroll_attempts,
                 no_change_count>>
  /\ UNCHANGED <<batchVars, sessionVars, runVars, diskVars, historyVars,
                 sanitizeVars>>

NextDiscovery ==
  \/ Scroll
  \/ Enumerate

SpecDiscovery == InitDiscovery /\ [][NextDiscovery]_vars

----------------------------------------------------------------------------
(* extract_playlist_urls called again and again on one downloader *)

\* a downloader just constructed, no call made yet
InitSessions ==
  /\ BatchStart(<<>>, DefaultConfig, {})
  /\ DiscoveryIdle
  /\ SanitizeIdle

\* extract_playlist_urls(url, headless) up to the launch of the session:
\* the argument is added to self.chrome_options, which the driver is given
CallExtract ==
  /\ pc = "batch_end"
  /\ Len(sessions) < MaxCalls
  /\ \E headless \in BOOLEAN :
       LET opts == OptionsAfter(chrome_options, [headless |-> headless]) IN
       /\ chrome_options' = opts
       /\ sessions' = Append(sessions,
                             [headless |-> headless, options |-> opts])
  /\ driver' = "open"
  /\ sessions_open' = sessions_open + 1
  /\ pc' = "extract"
  /\ UNCHANGED <<playlist_urls, config, playlist_i, results, total_success,
                 total_skipped, total_failed, total_playlists_failed,
                 batch_summary>>
  /\ UNCHANGED <<runVars, diskVars, historyVars, discoveryVars,
                 sanitizeVars>>

\* the call returns or raises: the finally clause quits the session
ExtractEnds ==
  /\ pc = "extract"
  /\ \E raised \in BOOLEAN :
       sessions_open' = SessionsAfterFinally(sessions_open, driver, raised)
  /\ driver' = None
  /\ pc' = "batch_end"
  /\ UNCHANGED <<playlist_urls, config, playlist_i, results, total_success,
                 total_skipped, total_failed, total_playlists_failed,
                 batch_summary>>
  /\ UNCHANGED <<chrome_options, sessions, runVars, diskVars, historyVars,
                 discoveryVars, sanitizeVars>>

NextSessions ==
  \/ CallExtract
  \/ ExtractEnds

SpecSessions == InitSessions /\ [][NextSessions]_vars

----------------------------------------------------------------------------
(* sanitize_filename applied to a name and again to its own result *)

\* the characters the names are made of: a plain one, whitespace, a dot and
\* an invalid one
NameChars == {"a", " ", ".", "/"}

\* the names of at most n characters
RECURSIVE NamesUpTo(_)
NamesUpTo(n) ==
  IF n = 0 THEN {<<>>}
  ELSE NamesUpTo(n - 1)
       \cup {Append(s, c) : s \in {t \in NamesUpTo(n - 1) : Len(t) = n - 1},
                            c \in NameChars}

\* n plain characters
Plain(n) == [k \in 1..n |-> "a"]

\* video titles have no length limit: the names are short ones and names
\* that reach the truncation limit within their last characters
Filenames ==
  {Plain(n) \o s : n \in {0, FilenameLimit - 2, FilenameLimit - 1},
                   s \in NamesUpTo(MaxLen)}

InitSanitize ==
  /\ BatchStart(<<>>, DefaultConfig, {})
  /\ DiscoveryIdle
  /\ spc = "input"
  /\ filename \in Filenames
  /\ sanitized = <<>>
  /\ resanitized = <<>>

\* sanitize_filename(filename)
SanitizeOnce ==
  /\ spc = "input"
  /\ sanitized' = sanitize_filename(filename)
  /\ spc' = "once"
  /\ UNCHANGED <<filename, resanitized>>
  /\ UNCHANGED <<batchVars, sessionVars, runVars, diskVars, historyVars,
                 discoveryVars>>

\* sanitize_filename applied to the result of the first call
SanitizeAgain ==
  /\ spc = "once"
  /\ resanitized' = sanitize_filename(sanitized)
  /\ spc' = "twice"
  /\ UNCHANGED <<filename, sanitized>>
  /\ UNCHANGED <<batchVars, sessionVars, runVars, diskVars, historyVars,
                 discoveryVars>>

NextSanitize ==
  \/ SanitizeOnce
  \/ SanitizeAgain

SpecSanitize == InitSanitize /\ [][NextSanitize]_vars

----------------------------------------------------------------------------
(* Properties *)

\* the calls of download_video_with_ytdlp made by the k-th playlist run
FetchesOf(k) == SelectSeq(fetches, LAMBDA f : f.run = k)

\* how many calls of a sequence had the outcome o
CountOutcome(fs, o) == Cardinality({j \in 1..Len(fs) : fs[j].outcome = o})

\* C1: a playlist run that returned a summary and was not cut short by the
\* stop-on-error break has success_count + skipped_count + fail_count equal
\* to total_videos; for a run that was cut short the sum is at most
\* total_videos.
C1_SummaryArithmetic ==
  \A k \in 1..Len(runs) :
    runs[k].kind = "summary" =>
      LET sum == runs[k].success_count + runs[k].skipped_count
                 + runs[k].fail_count
      IN /\ ~runs[k].aborted => sum = runs[k].total_videos
         /\ runs[k].aborted => sum <= runs[k].total_videos

\* a completed run that was not cut short and saw a failure and a skip
C1_Witness ==
  \E k \in 1..Len(runs) :
    /\ runs[k].kind = "summary"
    /\ ~runs[k].aborted
    /\ runs[k].fail_count > 0
    /\ runs[k].skipped_count > 0

\* C2: with continue_on_error = false no video is fetched after a fetch of
\* the same run returned Failed, and a returned summary counts exactly the
\* videos attempted: its counts are the numbers of Succeeded,
\* SucceededSkipped and Failed fetches of the run, and the videos attempted
\* are the first ones of the sorted list.
C2_StopOnError ==
  ~config.continue_on_error =>
    /\ \A j, k \in 1..Len(fetches) :
         (j < k /\ fetches[j].run = fetches[k].run)
           => fetches[j].outcome # "Failed"
    /\ \A k \in 1..Len(runs) :
         runs[k].kind = "summary" =>
           LET fs == FetchesOf(k) IN
           /\ runs[k].success_count = CountOutcome(fs, "Succeeded")
           /\ runs[k].skipped_count = CountOutcome(fs, "SucceededSkipped")
           /\ runs[k].fail_count = CountOutcome(fs, "Failed")
           /\ Len(fs) <= Len(runs[k].videos)
           /\ \A j \in 1..Len(fs) : fs[j].video = runs[k].videos[j]

\* a run stopped by a failure with a video left that was never attempted
C2_Witness ==
  /\ ~config.continue_on_error
  /\ \E k \in 1..Len(runs) :
       /\ runs[k].kind = "summary"
       /\ runs[k].fail_count = 1
       /\ Len(FetchesOf(k)) < runs[k].total_videos

\* C3: with continue_on_error = true a failed fetch does not end the run:
\* the videos fetched so far are the first ones of the sorted list, each
\* once and in order, a run that returned a summary fetched every video of
\* the sorted list, and its fail_count is the number of Failed fetches.
C3_ContinueOnError ==
  config.continue_on_error =>
    /\ LET fs == FetchesOf(Len(runs) + 1) IN
         /\ Len(fs) <= Len(videos)
         /\ \A j \in 1..Len(fs) : fs[j].video = videos[j]
    /\ \A k \in 1..Len(runs) :
         runs[k].kind = "summary" =>
           LET fs == FetchesOf(k) IN
           /\ ~runs[k].aborted
           /\ Len(fs) = Len(runs[k].videos)
           /\ \A j \in 1..Len(fs) : fs[j].video = runs[k].videos[j]
           /\ runs[k].fail_count = CountOutcome(fs, "Failed")
           /\ runs[k].total_videos = Len(runs[k].discovered)

\* a completed run whose first fetch failed and whose second fetch was made
C3_Witness ==
  /\ config.continue_on_error
  /\ \E k \in 1..Len(runs) :
       /\ runs[k].kind = "summary"
       /\ Len(FetchesOf(k)) = 2
       /\ FetchesOf(k)[1].outcome = "Failed"
       /\ runs[k].fail_count = 1

\* the list of entries a fetch's run discovered
DiscoveredOf(k) == IF k = Len(runs) + 1 THEN discovered ELSE runs[k].discovered

\* the position of the j-th fetch among the fetches of its run
PositionInRun(j) ==
  Cardinality({m \in 1..j : fetches[m].run = fetches[j].run})

C4_SecondFetchSkips ==
  \A j, k \in 1..Len(fetches) :
    ( /\ j < k
      /\ fetches[j].video.url = fetches[k].video.url
      /\ fetches[j].video.title = fetches[k].video.title
      /\ fetches[j].output_dir = fetches[k].output_dir
      /\ fetches[j].outcome = "Succeeded"
      /\ fetches[k].failure # "OSError"
      /\ \A m \in (j + 1)..(k - 1) :
           \/ fetches[m].video.title # fetches[j].video.title
           \/ fetches[m].output_dir # fetches[j].output_dir )
    => /\ fetches[k].outcome = "SucceededSkipped"
       /\ ~fetches[k].invoked

\* C5: a playlist run that downloaded all N discovered videos (succeeded N,
\* skipped 0, failed 0), run again at once on the same playlist with the same
\* entries and with no existing-file check raising, returns succeeded 0,
\* skipped N, failed 0, total N and invokes the download capability for
\* none of them.
C5_RerunSkipsAll ==
  \A k \in 1..(Len(runs) - 1) :
    ( /\ runs[k].kind = "summary"
      /\ runs[k].success_count = runs[k].total_videos
      /\ runs[k].skipped_count = 0
      /\ runs[k].fail_count = 0
      /\ runs[k + 1].url = runs[k].url
      /\ runs[k + 1].discovered = runs[k].discovered
      /\ \A j \in 1..Len(fetches) :
           fetches[j].run = k + 1 => fetches[j].failure # "OSError" )
    => /\ runs[k + 1].kind = "summary"
       /\ runs[k + 1].success_count = 0
       /\ runs[k + 1].skipped_count = runs[k].total_videos
       /\ runs[k + 1].fail_count = 0
       /\ runs[k + 1].total_videos = runs[k].total_videos
       /\ \A j \in 1..Len(fetches) :
            fetches[j].run = k + 1 => ~fetches[j].invoked

\* C7: when max_videos is a number M >= 1, discovery never yields more than
\* M entries.
C7_AtMostMaxVideos ==
  (dpc = "returned" /\ max_videos >= 1) => Len(video_data) <= max_videos

\* C8 as claimed: a scroll whose count increases resets no_change_count to
\* 0 and every scroll whose count does not increase adds one to it.
C8_StreakFollowsIncrease ==
  [][scroll_attempts' # scroll_attempts =>
       /\ current_count' > current_count => no_change_count' = 0
       /\ current_count' <= current_count
            => no_change_count' = no_change_count + 1]_vars

\* C8, amended: a scroll whose count changes (up or down) resets
\* no_change_count to 0 and a scroll whose count is unchanged adds one to
\* it; the loop is left as soon as the streak is ten, whatever the number of
\* attempts, and never runs with a streak of ten.
C8_StreakFollowsChange ==
  /\ [][scroll_attempts' # scroll_attempts =>
          /\ current_count' # current_count => no_change_count' = 0
          /\ current_count' = current_count
               => no_change_count' = no_change_count + 1
          /\ no_change_count' = max_no_change_attempts => dpc' # "loop"]_vars
  /\ [](dpc = "loop" => no_change_count < max_no_change_attempts)

\* ten unchanged scrolls in a row ended discovery well below the cap
C8_Witness ==
  /\ dpc = "enumerate"
  /\ no_change_count = max_no_change_attempts
  /\ scroll_attempts = 12
  /\ current_count = 2

\* C9: every playlist run that failed with an error has a failure record in
\* results, and total_playlists_failed counts these runs.
C9_FailureRecorded ==
  LET failedRuns == {k \in 1..Len(runs) : runs[k].error}
      records == {j \in 1..Len(results) : ~results[j].success}
  IN /\ Cardinality(records) = Cardinality(failedRuns)
     /\ total_playlists_failed = Cardinality(failedRuns)
     /\ \A k \in failedRuns :
          \E j \in records : results[j].url = runs[k].url

\* C10: with continue_on_playlist_error = false, once a playlist run has
\* failed with an error it is the last one: the batch extracts, downloads
\* and pauses no more.
C10_StopsAfterPlaylistError ==
  ~config.continue_on_playlist_error =>
    \A k \in 1..Len(runs) :
      runs[k].error => (k = Len(runs) /\ pc \in {"batch_end", "done"})

\* the runs whose discovery returned zero videos
ZeroVideoRuns == {k \in 1..Len(runs) : runs[k].kind = "None" /\ ~runs[k].error}

\* C11: a run whose discovery returns zero videos fetches nothing and leaves
\* no folder or metadata behind, and the batch records an outcome for its URL
\* in results: results holds one entry for every run of that URL that did
\* not fail with an error.
C11_ZeroVideosRecorded ==
  \A k \in ZeroVideoRuns :
    /\ FetchesOf(k) = <<>>
    /\ Cardinality({j \in 1..Len(results) : results[j].url = runs[k].url})
         = Cardinality({r \in 1..Len(runs) :
                          runs[r].url = runs[k].url /\ ~runs[r].error})

RECURSIVE SumSeq(_)
\* the sum of a sequence of numbers
SumSeq(s) == IF s = <<>> THEN 0 ELSE Head(s) + SumSeq(Tail(s))

\* the successful entries of a results list
SuccessfulEntries(rs) == SelectSeq(rs, LAMBDA e : e.success)

\* C12: in the summary the batch returns, each total is the sum of the
\* matching count over the successful entries of results, and
\* successful_playlists is the number of those entries.
C12_TotalsAreSums ==
  batch_summary.returned =>
    LET ok == SuccessfulEntries(batch_summary.results) IN
    /\ batch_summary.total_videos_downloaded =
         SumSeq([j \in 1..Len(ok) |-> ok[j].success_count])
    /\ batch_summary.total_videos_skipped =
         SumSeq([j \in 1..Len(ok) |-> ok[j].skipped_count])
    /\ batch_summary.total_videos_failed =
         SumSeq([j \in 1..Len(ok) |-> ok[j].fail_count])
    /\ batch_summary.successful_playlists = Len(ok)

\* a batch returned with two successful playlists and all three totals
\* above zero and not all equal
C12_Witness ==
  /\ batch_summary.returned
  /\ batch_summary.successful_playlists = 2
  /\ batch_summary.total_videos_downloaded = 2
  /\ batch_summary.total_videos_skipped = 1
  /\ batch_summary.total_videos_failed = 1

\* C13: sanitize_filename is idempotent: sanitizing an already sanitized
\* name returns it unchanged, for every name, those longer than the
\* truncation limit included.
C13_SanitizeIdempotent ==
  spc = "twice" => resanitized = sanitized

\* C14: download_video_with_ytdlp never raises: whenever the existing-file
\* check or the download capability fails inside a call, the call returns
\* a Failed result carrying the error text, with success and skipped both
\* false; and no run that reached its download loop ended in the exception
\* handler of download_playlist.
C14_FetcherNeverRaises ==
  /\ \A j \in 1..Len(fetches) :
       LET f == fetches[j] IN
       /\ ~f.result.raised
       /\ f.failure # None =>
            /\ f.outcome = "Failed"
            /\ f.result.error = f.failure
            /\ ~f.result.success
            /\ ~f.result.skipped
  /\ \A k \in 1..Len(runs) : runs[k].error => FetchesOf(k) = <<>>

\* a run in which the check failed for one video and the capability for
\* the other returned a summary counting both as failed
C14_Witness ==
  /\ Len(runs) = 1
  /\ runs[1].kind = "summary"
  /\ runs[1].fail_count = 2
  /\ Len(fetches) = 2
  /\ fetches[1].failure = "OSError"
  /\ fetches[2].failure = "DownloadError"

\* the number of steps the batch can still take, at most: the playlists
\* left, and within the current one the stage reached and the videos left
StepsPerPlaylist == 2 * MaxVideos + 6

Rank ==
  IF pc \in {"done", "crashed", "interrupted"} THEN 0
  ELSE IF pc = "batch_end" THEN 1
  ELSE 2 + (Len(playlist_urls) - playlist_i) * StepsPerPlaylist
       + ( IF pc = "batch_loop" THEN 2 * MaxVideos + 5
           ELSE IF pc = "extract" THEN 2 * MaxVideos + 4
           ELSE IF pc = "download_loop"
                THEN 3 + 2 * (Len(videos) - video_i)
           ELSE IF pc = "sleep_download"
                THEN 2 + 2 * (Len(videos) - video_i)
           ELSE 1 )

\* the guard of an action of Next holds (each action is defined whenever
\* its guard holds and the loop indices are within their lists)
StepPossible ==
  \/ pc = "batch_loop" /\ playlist_i \in 1..Len(playlist_urls)
  \/ pc = "extract" /\ playlist_i \in 1..Len(playlist_urls)
  \/ pc = "download_loop" /\ video_i \in 1..Len(videos)
  \/ pc \in {"sleep_download", "sleep_playlist", "batch_end"}

\* C15: whatever the list of URLs and whichever extractions fail, pages
\* come back empty and downloads fail, the batch ends and returns its
\* summary: every step brings the end nearer (the rank, a natural number,
\* decreases), a step is possible until the batch has returned, and the
\* batch has then returned its summary.
C15_BatchTerminates ==
  /\ [][Rank' < Rank]_vars
  /\ [](pc # "done" => StepPossible)
  /\ [](pc = "done" => batch_summary.returned)

\* a batch of two playlists returned its summary although the extraction
\* of the first failed and a download of the second failed
C15_Witness ==
  /\ pc = "done"
  /\ batch_summary.returned
  /\ Len(runs) = 2
  /\ runs[1].error
  /\ runs[2].kind = "summary"
  /\ runs[2].fail_count >= 1

\* what the returned summary tells about an early abort: it has no field
\* for it, and its counts show one only by accounting for fewer videos than
\* total_videos
SummaryShowsAbort(run) ==
  run.success_count + run.skipped_count + run.fail_count < run.total_videos

\* C16: the summary of a run tells whether the download loop was left
\* early: a run that aborted can be told from a run that processed every
\* video, also when the failing video was the last one.
C16_AbortRecorded ==
  \A k \in 1..Len(runs) :
    runs[k].kind = "summary" => (runs[k].aborted <=> SummaryShowsAbort(runs[k]))

\* C17: a call whose existing-file check does not itself raise returns
\* SucceededSkipped without invoking the download capability if and only
\* if the folder held a file whose name without extension equals the
\* sanitized title (a file "a.b.mp4" does not make title "a" skip). Stated
\* for the titles without brackets; those with brackets are the matter of
\* C4.
C17_SkipsIffFileNamed ==
  \A j \in 1..Len(fetches) :
    LET title == fetches[j].video.title IN
    ( /\ fetches[j].failure # "OSError"
      /\ \A k \in 1..Len(title) : title[k] \notin {"[", "]"} )
    => ( (fetches[j].outcome = "SucceededSkipped" /\ ~fetches[j].invoked)
         <=> fetches[j].had_file )

C19_SessionReleased ==
  pc # "extract" => sessions_open = 0

\* the operator interrupted an extraction whose session had been launched
\* with the headless argument, and no session is left open
C19_Witness ==
  /\ pc = "interrupted"
  /\ chrome_options = Append(BaseChromeOptions, "--headless=new")
  /\ driver = None
  /\ sessions_open = 0

\* C20: the pipeline is sequential: at most one rendering session is open;
\* the download loop, which makes one call of the fetcher at a time, runs
\* only while no session is open; and an extraction starts only when every
\* earlier playlist run has returned and left nothing in progress.
C20_Sequential ==
  /\ sessions_open <= 1
  /\ pc \in {"download_loop", "sleep_download"} => sessions_open = 0
  /\ pc = "extract" =>
       /\ Len(runs) = playlist_i - 1
       /\ RunIdle
       /\ \A j \in 1..Len(fetches) : fetches[j].run < playlist_i

\* the extraction of the second playlist is under way after a first run
\* that downloaded two videos
C20_Witness ==
  /\ pc = "extract"
  /\ playlist_i = 2
  /\ sessions_open = 1
  /\ Len(fetches) = 2

\* the arguments a session is launched with
HasHeadlessArgument(options) ==
  \E k \in 1..Len(options) : options[k] = "--headless=new"

\* C21: the browser options of a rendering session are determined by the
\* headless flag of its own call alone: the arguments of __init__, plus the
\* headless argument exactly when the flag is true; a call with headless
\* false after a call with headless true opens a session that is not
\* headless.
C21_OptionsFollowFlag ==
  \A j \in 1..Len(sessions) :
    /\ sessions[j].headless <=> HasHeadlessArgument(sessions[j].options)
    /\ sessions[j].options =
         OptionsAfter(BaseChromeOptions, [headless |-> sessions[j].headless])

\* C22: in a playlist run with delay_between_downloads > 0 one pause, and
\* only one, lies between every two consecutive fetches, and none follows
\* the last fetch of the run, whether the list was exhausted or the loop
\* broke on an error; with a delay of 0 the run never pauses. In steps: a
\* fetch is followed at once by the next one only when the delay is 0; a
\* pause starts only after a fetch that is not the last of the list, under
\* a positive delay; and a pause ends in the fetch of the next video.
C22_PauseBetweenFetches ==
  [][ /\ (pc = "download_loop" /\ pc' = "download_loop")
         => config.delay_between_downloads = 0
      /\ pc' = "sleep_download"
         => /\ pc = "download_loop"
            /\ config.delay_between_downloads > 0
            /\ video_i < Len(videos)
            /\ Len(fetches') = Len(fetches) + 1
      /\ pc = "sleep_download"
         => /\ pc' = "download_loop"
            /\ video_i' = video_i + 1
            /\ video_i' <= Len(videos)
            /\ fetches' = fetches ]_vars

\* a run pauses after a first video that failed, before it fetches the
\* second
C22_Witness ==
  /\ pc = "sleep_download"
  /\ config.delay_between_downloads > 0
  /\ video_i = 1
  /\ Len(videos) = 2
  /\ fail_count = 1

\* C25: within one playlist run no video is fetched twice, whatever
\* max_retries says: the fetches of a run are for videos further and
\* further down the sorted list, a failed one included.
C25_NoRetry ==
  \A i, j \in 1..Len(fetches) :
    (i < j /\ fetches[i].run = fetches[j].run)
      => fetches[i].video.download_index < fetches[j].video.download_index

\* with max_retries = 3 the download of the first video failed, and the
\* run ended with one fetch for each of its two videos
C25_Witness ==
  /\ config.max_retries = DefaultMaxRetries
  /\ Len(runs) = 1
  /\ runs[1].total_videos = 2
  /\ Len(fetches) = 2
  /\ fetches[1].failure = "DownloadError"
  /\ fetches[1].result.invoked
  /\ runs[1].fail_count = 1

\* C23: in a batch with delay_between_playlists > 0 a pause follows each
\* processed playlist that another one follows, whatever its run returned,
\* and none follows the last processed playlist. In steps: a pause starts
\* only when a run ends that is not the last of the list, under a positive
\* delay; a pause ends in the start of the next playlist; and the end of a
\* run leads straight to the next playlist only when the delay is 0.
C23_PauseBetweenPlaylists ==
  [][ /\ pc' = "sleep_playlist"
         => /\ Len(runs') = Len(runs) + 1
            /\ config.delay_between_playlists > 0
            /\ playlist_i < Len(playlist_urls)
      /\ pc = "sleep_playlist"
         => /\ pc' = "batch_loop"
            /\ playlist_i' = playlist_i + 1
            /\ playlist_i' <= Len(playlist_urls)
            /\ runs' = runs
      /\ (Len(runs') = Len(runs) + 1 /\ pc' = "batch_loop")
         => config.delay_between_playlists = 0 ]_vars

\* the batch pauses after a first playlist whose extraction failed, with
\* continue_on_playlist_error false, before it starts the second
C23_Witness ==
  /\ pc = "sleep_playlist"
  /\ ~config.continue_on_playlist_error
  /\ config.delay_between_playlists > 0
  /\ playlist_i = 1
  /\ Len(playlist_urls) = 2
  /\ Len(runs) = 1
  /\ runs[1].error

\* the playlist_info.json files of a folder
MetadataIn(folder) == {m \in info_json : m.dir = folder}

\* the single run of the model is in its download loop or has returned a
\* summary: at least one video was discovered
RunDiscoveredVideos ==
  \/ pc \in {"download_loop", "sleep_download"}
  \/ Len(runs) = 1 /\ runs[1].kind = "summary"

\* C24: with create_playlist_folder true and at least one video discovered,
\* playlist_info.json is in the playlist folder from before the first fetch
\* on, no fetch or pause changes or removes it, its total_videos is the
\* number of its video records (the discovered videos) and its sort_order
\* the configured one; with create_playlist_folder false there is no
\* metadata file.
C24_MetadataWrittenOnce ==
  /\ [](RunDiscoveredVideos =>
         LET folder == PlaylistFolderOf("p1", config)
             n == IF Len(runs) = 1 THEN runs[1].total_videos ELSE Len(videos)
         IN IF config.create_playlist_folder
            THEN /\ [dir |-> folder, name |-> MetadataName] \in files
                 /\ Cardinality(MetadataIn(folder)) = 1
                 /\ \A m \in MetadataIn(folder) :
                      /\ m.total_videos = Len(m.videos)
                      /\ m.total_videos = n
                      /\ m.sort_order = config.sort_order
            ELSE /\ info_json = {}
                 /\ \A f \in files : f.name # MetadataName)
  /\ [][ (pc = "download_loop" \/ pc = "sleep_download") =>
           ( /\ info_json' = info_json
             /\ \A f \in files : f.name = MetadataName => f \in files' )
       ]_vars

\* a run sorted in reverse broke off after its first fetch, and its metadata
\* file lists both discovered videos
C24_Witness ==
  /\ Len(runs) = 1
  /\ runs[1].aborted
  /\ Len(fetches) = 1
  /\ config.sort_order = "reverse"
  /\ \E m \in info_json : m.total_videos = 2 /\ m.sort_order = "reverse"
  /\ [dir |-> PlaylistFolderOf("p1", config), name |-> MetadataName] \in files

\* C26: the results of the returned batch summary hold one entry for each
\* attempted playlist, in the order of the attempts, and
\* successful_playlists + failed_playlists is the number of attempts.
C26_OneEntryPerAttempt ==
  batch_summary.returned =>
    /\ Len(batch_summary.results) = Len(runs)
    /\ \A j \in 1..Len(batch_summary.results) :
         j <= Len(runs) => batch_summary.results[j].url = runs[j].url
    /\ batch_summary.successful_playlists + batch_summary.failed_playlists
         = Len(runs)

\* C27: a playlist run returns None only when its extraction failed or
\* found zero videos, that is, with nothing discovered: neither the failure
\* of a video nor a failure to make the folder or to write
\* playlist_info.json makes a run with discovered videos return None.
C27_NoneOnlyWithoutVideos ==
  \A k \in 1..Len(runs) :
    runs[k].kind = "None" => runs[k].discovered = <<>>

\* C28: the playlist_info of a returned summary carries the number of
\* discovered videos: its total_videos equals the total_videos of the
\* summary.
C28_InfoCountsVideos ==
  \A k \in 1..Len(runs) :
    runs[k].kind = "summary" =>
      runs[k].playlist_info.total_videos = runs[k].total_videos

====
